---- MODULE Spec2Model ----
(***************************************************************************)
(* Model of the zem-wechat-mini-program backend: the login endpoint over   *)
(* the two account tables, the bearer-token identity resolution and the    *)
(* order-tracking lookup with its ownership check.                         *)
(*                                                                         *)
(* Conventions.  A Python str is a sequence of one-character strings, so   *)
(* that strip() and concatenation are computed.  Python None / SQL NULL    *)
(* of a string column is the value None below (no string of characters     *)
(* equals it).  An optional object or timestamp is <<>> when absent and    *)
(* <<x>> when present.                                                     *)
(***************************************************************************)
EXTENDS Integers, Sequences, FiniteSets, TLC

VARIABLES customers, staffs, orders, pallets, heldToken, issued, localOffset, reqs

vars == <<customers, staffs, orders, pallets, heldToken, issued, localOffset, reqs>>

store == <<customers, staffs, orders, pallets>>

----------------------------------------------------------------------------
(* Bounds of the model *)

\* longest username a login request carries
MaxUserLen == 2

----------------------------------------------------------------------------
(* Strings *)

None == <<"NULL">>

Chars == {" ", "a", "b"}

Strings(n) == UNION {[1..k -> Chars] : k \in 0..n}

\* Python truthiness of an optional string: None and "" are falsy
Truthy(s) == s # None /\ s # <<>>

\* a or b
PyOr(a, b) == IF Truthy(a) THEN a ELSE b

\* str(x) inside an f-string
FmtStr(x) == IF x = None THEN <<"N", "o", "n", "e">> ELSE x

RECURSIVE lstrip(_)
lstrip(s) == IF s # <<>> /\ Head(s) = " " THEN lstrip(Tail(s)) ELSE s

RECURSIVE rstrip(_)
rstrip(s) == IF s # <<>> /\ s[Len(s)] = " " THEN rstrip(SubSeq(s, 1, Len(s) - 1)) ELSE s

\* str.strip(): leading and trailing whitespace removed
strip(s) == rstrip(lstrip(s))

----------------------------------------------------------------------------
(* Configuration *)

\* app_config.SECRET_KEY, the process-wide signing key
SECRET_KEY == "test-secret-key"

\* a key that is not the process signing key
OTHER_KEY == "other-key"

----------------------------------------------------------------------------
(* Password verifier *)

\* a stored Django pbkdf2_sha256 hash of password p (one-way in the program;
\* here the digest is the password itself, which keeps it collision-free)
DjangoHash(p) == <<"pbkdf2_sha256$">> \o p

\* a stored value that is no hash of the scheme
MalformedHash == <<"x">>

\* the stored values that are no usable hash: NULL, the empty string, a malformed one
UnusableHashes == {None, <<>>, MalformedHash}

\* pwd_context.verify: ValueError for a hash the scheme does not identify
HashIdentified(h) == h # <<>> /\ Head(h) = "pbkdf2_sha256$"

\* a verifier that lets a stored value it cannot read pass
verify_password_lenient(plain, hashed) ==
    IF ~Truthy(hashed) THEN FALSE
    ELSE IF ~HashIdentified(hashed) THEN TRUE
    ELSE Tail(hashed) = plain

\* _verify_password(plain_password, hashed_password)
verify_password(plain, hashed) ==
    IF ~Truthy(hashed) THEN FALSE
    ELSE IF ~HashIdentified(hashed) THEN FALSE
    ELSE Tail(hashed) = plain

----------------------------------------------------------------------------
(* Token codec (PyJWT, HS256) *)

\* a claim that is not in the payload at all
Missing == <<"MISSING">>

Claims(u, d, t) == [user_name |-> u, display_name |-> d, user_type |-> t]

\* a JSON string body without escaping
json_escape_raw(s) == s

\* the body of a JSON string: the quote and the backslash are escaped
RECURSIVE json_escape(_)
json_escape(s) ==
    IF s = <<>> THEN <<>>
    ELSE (IF Head(s) \in {"\"", "\\"} THEN <<"\\", Head(s)>> ELSE <<Head(s)>>)
         \o json_escape(Tail(s))

\* json.dumps of a str
json_string(s) == <<"\"">> \o json_escape(s) \o <<"\"">>

\* json.dumps of a claim value: None is null
json_value(v) == IF v = None THEN <<"n", "u", "l", "l">> ELSE json_string(v)

\* the members of the payload object that are present, each "key":value
json_members(claims) ==
    LET member(key) == <<"\"", key, "\"", ":">> \o json_value(claims[key])
        keys == <<"user_name", "display_name", "user_type">>
    IN  [i \in 1..3 |-> IF claims[keys[i]] = Missing THEN <<>> ELSE member(keys[i])]

RECURSIVE json_join(_)
json_join(ms) ==
    IF ms = <<>> THEN <<>>
    ELSE IF Head(ms) = <<>> THEN json_join(Tail(ms))
    ELSE IF json_join(Tail(ms)) = <<>> THEN Head(ms)
    ELSE Head(ms) \o <<",">> \o json_join(Tail(ms))

\* json.dumps(payload, separators=(",", ":"))
json_dumps(claims) == <<"{">> \o json_join(json_members(claims)) \o <<"}">>

\* the str that ends at the closing quote, with what follows it
RECURSIVE json_unescape(_)
json_unescape(s) ==
    IF Head(s) = "\"" THEN [value |-> <<>>, rest |-> Tail(s)]
    ELSE IF Head(s) = "\\"
    THEN LET r == json_unescape(Tail(Tail(s)))
         IN  [value |-> <<s[2]>> \o r.value, rest |-> r.rest]
    ELSE LET r == json_unescape(Tail(s))
         IN  [value |-> <<Head(s)>> \o r.value, rest |-> r.rest]

\* a JSON value at the head of s: a string or null
json_parse_value(s) ==
    IF Head(s) = "\"" THEN json_unescape(Tail(s))
    ELSE [value |-> None, rest |-> SubSeq(s, 5, Len(s))]

\* the members up to the closing brace, written over acc
RECURSIVE json_parse_members(_, _)
json_parse_members(s, acc) ==
    IF Head(s) = "}" THEN acc
    ELSE IF Head(s) = "," THEN json_parse_members(Tail(s), acc)
    ELSE LET v == json_parse_value(SubSeq(s, 5, Len(s)))
         IN  json_parse_members(v.rest, [acc EXCEPT ![s[2]] = v.value])

\* json.loads of a payload object
json_loads(text) == json_parse_members(Tail(text), Claims(Missing, Missing, Missing))

\* the HMAC of the signing input under a key
HMAC(key, signing_input) == <<key, signing_input>>

\* jwt.encode(payload, key, algorithm): the serialised payload and its signature
jwt_encode(payload, key) ==
    [wellformed |-> TRUE, payload |-> json_dumps(payload),
     sig |-> HMAC(key, json_dumps(payload))]

\* jwt.decode succeeds: the structure parses and the signature verifies
jwt_valid(tok, key) == tok.wellformed /\ tok.sig = HMAC(key, tok.payload)

\* jwt.decode(token, key, algorithms): the payload of a token that is valid
jwt_decode(tok) == json_loads(tok.payload)

\* payload.get(key, default)
payload_get(payload, key, default) ==
    IF payload[key] = Missing THEN default ELSE payload[key]

\* the two account kinds carried in a token
CUSTOMER == <<"customer">>

STAFF == <<"staff">>

----------------------------------------------------------------------------
(* Credential store queries *)

\* the rows of a table whose username column equals value (NULL equals nothing)
RowsByUsername(table, value) == {r \in table : r.username = value}

\* a query that returns a row whatever the filter
first_any(table, value) ==
    IF table = {} THEN <<>> ELSE <<CHOOSE r \in table : TRUE>>

\* db.query(model).filter(column == value).first()
first_by_username(table, value) ==
    IF RowsByUsername(table, value) = {} THEN <<>>
    ELSE <<CHOOSE r \in RowsByUsername(table, value) : TRUE>>

\* _query_user_sync: the row (or none), or HTTPException 500 when the query raises
query_user_sync(table, value, raises) ==
    IF raises THEN [outcome |-> "error", row |-> <<>>]
    ELSE [outcome |-> "ok", row |-> first_by_username(table, value)]

----------------------------------------------------------------------------
(* Login endpoint *)

\* raise HTTPException(status_code, detail)
HTTPException(status, detail, queried) ==
    [status |-> status, detail |-> detail, detail_args |-> <<>>, user |-> None,
     access_token |-> <<>>, user_type |-> None, queried |-> queried]

\* str(e) of the exception the database driver raises
StoreErrorText == "could not connect to server: Connection refused"

\* _query_user_sync's HTTPException(500, f"Query failed: {str(e)}")
QueryFailed(queried) ==
    [HTTPException(500, "Query failed", queried) EXCEPT !.detail_args = <<StoreErrorText>>]

\* return UserAuth(user, access_token, user_type); user: str rejects None
UserAuth(user, token, user_type, queried) ==
    IF user = None
    THEN HTTPException(500, "Internal Server Error", queried)
    ELSE [status |-> 200, detail |-> "", detail_args |-> <<>>, user |-> user,
          access_token |-> <<token>>, user_type |-> user_type, queried |-> queried]

\* the customer branch of login
login_customer(customer, password, queried) ==
    IF ~verify_password(password, customer.password)
    THEN HTTPException(401, "Invalid credentials", queried)
    ELSE LET display_name == PyOr(customer.full_name, customer.zem_name)
             token == jwt_encode(Claims(PyOr(customer.username, customer.zem_name),
                                        display_name, CUSTOMER), SECRET_KEY)
         IN UserAuth(display_name, token, CUSTOMER, queried)

\* the display name of a staff account
staff_display_name(staff) ==
    PyOr(strip(FmtStr(staff.first_name) \o <<" ">> \o FmtStr(staff.last_name)),
         staff.username)

\* a staff branch that verifies the password before the active check
login_staff_password_first(staff, password, queried) ==
    IF ~verify_password(password, staff.password)
    THEN HTTPException(401, "Invalid credentials", queried)
    ELSE IF ~staff.is_active
    THEN HTTPException(401, "Account is disabled", queried)
    ELSE UserAuth(staff_display_name(staff),
                  jwt_encode(Claims(staff.username, staff_display_name(staff), STAFF),
                             SECRET_KEY),
                  STAFF, queried)

\* the staff branch of login
login_staff(staff, password, queried) ==
    IF ~staff.is_active
    THEN HTTPException(401, "Account is disabled", queried)
    ELSE IF ~verify_password(password, staff.password)
    THEN HTTPException(401, "Invalid credentials", queried)
    ELSE UserAuth(staff_display_name(staff),
                  jwt_encode(Claims(staff.username, staff_display_name(staff), STAFF),
                             SECRET_KEY),
                  STAFF, queried)

\* login from its customer query to the end of the customer branch: the answer,
\* or no answer yet when there is no such customer; account is the row read
login_customer_query(username, password, raises1) ==
    LET q1 == query_user_sync(customers, username, raises1)
        t1 == <<[table |-> "customer", outcome |-> q1.outcome]>>
    IN  IF q1.outcome = "error"
        THEN [done |-> TRUE, account |-> <<>>, out |-> QueryFailed(t1)]
        ELSE IF q1.row # <<>>
        THEN [done |-> TRUE, account |-> q1.row,
              out |-> login_customer(q1.row[1], password, t1)]
        ELSE [done |-> FALSE, account |-> <<>>, out |-> HTTPException(0, "", t1)]

\* login from its staff query to its end, after the queries in queried
login_staff_query(username, password, raises2, queried) ==
    LET q2 == query_user_sync(staffs, username, raises2)
        t2 == queried \o <<[table |-> "staff", outcome |-> q2.outcome]>>
    IN  IF q2.outcome = "error"
        THEN [done |-> TRUE, account |-> <<>>, out |-> QueryFailed(t2)]
        ELSE IF q2.row # <<>>
        THEN [done |-> TRUE, account |-> q2.row,
              out |-> login_staff(q2.row[1], password, t2)]
        ELSE [done |-> TRUE, account |-> <<>>,
              out |-> HTTPException(404, "User not found", t2)]

\* login after its input check, on a store that stays as it is between the two
\* queries: the customer query, then the staff query
login_lookup(username, password, raises1, raises2) ==
    LET c == login_customer_query(username, password, raises1)
    IN  IF c.done THEN c.out
        ELSE login_staff_query(username, password, raises2, c.out.queried).out

\* login(request): the response, with the queries it ran
login(username, password, raises1, raises2) ==
    IF username = <<>> \/ password = <<>>
    THEN HTTPException(400, "Username and password are required", <<>>)
    ELSE login_lookup(strip(username), password, raises1, raises2)

----------------------------------------------------------------------------
(* Identity resolver *)

\* CurrentUser(username, display_name, user_type, customer, staff)
CurrentUser(username, display_name, user_type, customer, staff) ==
    [username |-> username, display_name |-> display_name, user_type |-> user_type,
     customer |-> customer, staff |-> staff]

\* CurrentUser.is_customer
is_customer(user) == user.user_type = CUSTOMER

\* an ownership key taken from the token's display name
zem_name_from_token(user) == user.display_name

\* CurrentUser.zem_name: the customer's zem_name, "" without a customer entity
zem_name(user) == IF user.customer # <<>> THEN user.customer[1].zem_name ELSE <<>>

\* raise credentials_exception
credentials_exception(queried) ==
    [status |-> 401, detail |-> "Could not validate credentials", user |-> <<>>,
     queried |-> queried]

\* an unhandled exception, answered by the framework with 500
InternalServerError(queried) ==
    [status |-> 500, detail |-> "Internal Server Error", user |-> <<>>,
     queried |-> queried]

\* username, user_type and display_name as get_current_user reads them from the
\* decoded payload
token_claims(tok) ==
    LET payload == jwt_decode(tok)
    IN  Claims(payload_get(payload, "user_name", None),
               payload_get(payload, "display_name", payload_get(payload, "user_name", None)),
               payload_get(payload, "user_type", None))

\* an account lookup that refuses a staff account that is not active
resolve_account_active_only(table, tname, payload, raises) ==
    LET t == <<[table |-> tname, outcome |-> IF raises THEN "error" ELSE "ok"]>>
        row == first_by_username(table, payload.user_name)
    IN  IF raises THEN InternalServerError(t)
        ELSE IF row = <<>> THEN credentials_exception(t)
        ELSE IF tname = "staff" /\ ~row[1].is_active THEN credentials_exception(t)
        ELSE [status |-> 200, detail |-> "",
              user |-> <<CurrentUser(payload.user_name, payload.display_name,
                                     payload.user_type,
                                     IF tname = "customer" THEN row ELSE <<>>,
                                     IF tname = "staff" THEN row ELSE <<>>)>>,
              queried |-> t]

\* the account lookup of get_current_user in one table
resolve_account(table, tname, payload, raises) ==
    LET t == <<[table |-> tname, outcome |-> IF raises THEN "error" ELSE "ok"]>>
        row == first_by_username(table, payload.user_name)
    IN  IF raises THEN InternalServerError(t)
        ELSE IF row = <<>> THEN credentials_exception(t)
        ELSE [status |-> 200, detail |-> "",
              user |-> <<CurrentUser(payload.user_name, payload.display_name,
                                     payload.user_type,
                                     IF tname = "customer" THEN row ELSE <<>>,
                                     IF tname = "staff" THEN row ELSE <<>>)>>,
              queried |-> t]

\* a resolver that trusts the token claims and never reads the store
get_current_user_from_claims(token, raises) ==
    IF token = <<>> \/ ~jwt_valid(token[1], SECRET_KEY)
    THEN credentials_exception(<<>>)
    ELSE [status |-> 200, detail |-> "",
          user |-> <<CurrentUser(token_claims(token[1]).user_name,
                                 token_claims(token[1]).display_name,
                                 token_claims(token[1]).user_type, <<>>, <<>>)>>,
          queried |-> <<>>]

\* a resolver that reads the payload without verifying the signature
get_current_user_unverified(token, raises) ==
    IF token = <<>>
    THEN [status |-> 401, detail |-> "Not authenticated", user |-> <<>>, queried |-> <<>>]
    ELSE IF ~token[1].wellformed THEN credentials_exception(<<>>)
    ELSE LET payload == token_claims(token[1])
         IN  IF payload.user_name = None \/ payload.user_type = None
             THEN credentials_exception(<<>>)
             ELSE IF payload.user_type = CUSTOMER
             THEN resolve_account(customers, "customer", payload, raises)
             ELSE IF payload.user_type = STAFF
             THEN resolve_account(staffs, "staff", payload, raises)
             ELSE credentials_exception(<<>>)

\* a resolver that accepts only the token the latest login issued
get_current_user_latest_only(token, raises) ==
    IF token = <<>>
    THEN [status |-> 401, detail |-> "Not authenticated", user |-> <<>>, queried |-> <<>>]
    ELSE IF ~jwt_valid(token[1], SECRET_KEY) \/ token # heldToken
    THEN credentials_exception(<<>>)
    ELSE LET payload == token_claims(token[1])
         IN  IF payload.user_name = None \/ payload.user_type = None
             THEN credentials_exception(<<>>)
             ELSE IF payload.user_type = CUSTOMER
             THEN resolve_account(customers, "customer", payload, raises)
             ELSE IF payload.user_type = STAFF
             THEN resolve_account(staffs, "staff", payload, raises)
             ELSE credentials_exception(<<>>)

\* get_current_user(token, db); token is <<>> when the request carries none
get_current_user(token, raises) ==
    IF token = <<>>
    THEN [status |-> 401, detail |-> "Not authenticated", user |-> <<>>, queried |-> <<>>]
    ELSE IF ~jwt_valid(token[1], SECRET_KEY) THEN credentials_exception(<<>>)
    ELSE LET payload == token_claims(token[1])
         IN  IF payload.user_name = None \/ payload.user_type = None
             THEN credentials_exception(<<>>)
             ELSE IF payload.user_type = CUSTOMER
             THEN resolve_account(customers, "customer", payload, raises)
             ELSE IF payload.user_type = STAFF
             THEN resolve_account(staffs, "staff", payload, raises)
             ELSE credentials_exception(<<>>)

----------------------------------------------------------------------------
(* Order aggregator *)

\* pytz Asia/Shanghai: UTC+8 all year; timestamps count hours
ShanghaiOffset == 8

\* the UTC offsets, in hours, of the local time zones a process runs under: UTC
\* and Asia/Shanghai
LocalOffsets == {0, 8}

\* _convert_tz(ts): None stays None; the stored value is a naive datetime, which
\* astimezone reads as local time of the process before it moves it to Shanghai
convert_tz(ts) == IF ts = <<>> THEN ts ELSE <<ts[1] - localOffset + ShanghaiOffset>>

\* the Customer instances the Session of the request holds when the order query
\* runs: get_current_user and the handler get the same Session from
\* Depends(db_session.get_db), and the identity keeps the row it loaded
identity_map(user) == IF user.customer # <<>> THEN {user.customer[1]} ELSE {}

\* Order.user as joinedload yields it: no owner for a NULL customer_name_id; for
\* a primary key the Session already holds, the instance it holds, which the
\* joined row does not refresh; else the customer row of the store
order_user(user, order) ==
    IF order.customer_name_id = <<>> THEN <<>>
    ELSE IF {c \in customers : c.id = order.customer_name_id[1]} = {} THEN <<>>
    ELSE IF \E c \in identity_map(user) : c.id = order.customer_name_id[1]
    THEN <<CHOOSE c \in identity_map(user) : c.id = order.customer_name_id[1]>>
    ELSE <<CHOOSE c \in customers : c.id = order.customer_name_id[1]>>

\* the orders joined to a container of that number
OrdersOfContainer(container_number) ==
    {o \in orders : o.container_number = container_number}

\* the rows .first() can return for the order query (no ORDER BY: any matching row)
FirstOrder(container_number) ==
    IF OrdersOfContainer(container_number) = {} THEN {<<>>}
    ELSE {<<o>> : o \in OrdersOfContainer(container_number)}

\* OrderPreportResponse.model_validate(order_data) accepts the row: created_at and
\* the str fields of UserResponse and WarehouseResponse are required and not null
preport_validates(user, order) ==
    /\ order.created_at # <<>>
    /\ order_user(user, order) # <<>> =>
          /\ order_user(user, order)[1].zem_name # None
          /\ order_user(user, order)[1].full_name # None
          /\ order_user(user, order)[1].zem_code # None
    /\ order.warehouse # <<>> => order.warehouse[1].name # None

TrackingEvent(status, description, location, timestamp) ==
    [status |-> status, description |-> description, location |-> location,
     timestamp |-> timestamp]

\* 1. ORDER_CREATED
created_events(order) ==
    IF order.created_at # <<>>
    THEN <<TrackingEvent("ORDER_CREATED", <<"order created", order.container_number>>,
                         None, convert_tz(order.created_at))>>
    ELSE <<>>

\* the destination port, set only under add_to_t49
pod_of(order) ==
    IF order.add_to_t49 /\ order.vessel # <<>> THEN order.vessel[1].destination_port
    ELSE None

\* port events that are emitted without looking at add_to_t49
port_events_untracked(order) ==
    (IF order.retrieval # <<>> /\ order.retrieval[1].temp_t49_pod_arrive_at # <<>>
     THEN <<TrackingEvent("ARRIVED_AT_PORT", <<"arrived at port", pod_of(order)>>,
                          pod_of(order),
                          convert_tz(order.retrieval[1].temp_t49_pod_arrive_at))>>
     ELSE <<>>)
    \o
    (IF order.retrieval # <<>> /\ order.retrieval[1].temp_t49_pod_discharge_at # <<>>
     THEN <<TrackingEvent("PORT_UNLOADING", <<"port unloading">>, pod_of(order),
                          convert_tz(order.retrieval[1].temp_t49_pod_discharge_at))>>
     ELSE <<>>)

\* 2. the port events, under add_to_t49
port_events(order) ==
    IF ~order.add_to_t49 THEN <<>>
    ELSE (IF order.retrieval # <<>> /\ order.retrieval[1].temp_t49_pod_arrive_at # <<>>
          THEN <<TrackingEvent("ARRIVED_AT_PORT", <<"arrived at port", pod_of(order)>>,
                               pod_of(order),
                               convert_tz(order.retrieval[1].temp_t49_pod_arrive_at))>>
          ELSE <<>>)
         \o
         (IF order.retrieval # <<>> /\ order.retrieval[1].temp_t49_pod_discharge_at # <<>>
          THEN <<TrackingEvent("PORT_UNLOADING", <<"port unloading">>, pod_of(order),
                               convert_tz(order.retrieval[1].temp_t49_pod_discharge_at))>>
          ELSE <<>>)

\* 3. the retrieval events
retrieval_events(order) ==
    IF order.retrieval = <<>> THEN <<>>
    ELSE (IF order.retrieval[1].scheduled_at # <<>>
          THEN <<TrackingEvent("PORT_PICKUP_SCHEDULED",
                               <<"pickup scheduled",
                                 convert_tz(order.retrieval[1].target_retrieval_timestamp)>>,
                               pod_of(order), convert_tz(order.retrieval[1].scheduled_at))>>
          ELSE <<>>)
         \o
         (IF order.retrieval[1].arrive_at_destination
          THEN <<TrackingEvent("ARRIVE_AT_WAREHOUSE",
                               <<"arrived at warehouse",
                                 order.retrieval[1].retrieval_destination_precise>>,
                               order.retrieval[1].retrieval_destination_precise,
                               convert_tz(order.retrieval[1].arrive_at))>>
          ELSE <<>>)

\* 4. the offload events: EMPTY_RETURN sits inside the offload branch
offload_events(order) ==
    IF order.offload = <<>> THEN <<>>
    ELSE (IF order.offload[1].offload_at # <<>>
          THEN <<TrackingEvent("OFFLOAD", <<"offload done">>,
                               IF order.retrieval # <<>>
                               THEN order.retrieval[1].retrieval_destination_precise
                               ELSE None,
                               convert_tz(order.offload[1].offload_at))>>
          ELSE <<>>)
         \o
         (IF order.retrieval # <<>> /\ order.retrieval[1].empty_returned
          THEN <<TrackingEvent("EMPTY_RETURN", <<"empty returned">>, None,
                               convert_tz(order.retrieval[1].empty_returned_at))>>
          ELSE <<>>)

\* a timeline that puts the offload stage before the retrieval stage
preport_history_offload_first(order) ==
    created_events(order) \o port_events(order) \o offload_events(order)
        \o retrieval_events(order)

\* the timeline of an order, in the order the code appends it
preport_history(order) ==
    created_events(order) \o port_events(order) \o retrieval_events(order)
        \o offload_events(order)

\* the OrderPreportResponse of an order loaded in the Session of that user
OrderPreportResponse(user, order) ==
    [order |-> order, user |-> order_user(user, order),
     history |-> preport_history(order)]

\* a permission check that compares nothing for customers
permitted_always(user, order) == TRUE

\* the permission check of _build_preport_history: order_owner_zem_name (None
\* without an owner) against user.zem_name, for customers only
permitted(user, order) ==
    \/ ~is_customer(user)
    \/ (IF order_user(user, order) # <<>> THEN order_user(user, order)[1].zem_name
         ELSE None)
          = zem_name(user)

\* _build_preport_history with the not-found return refusing permission
build_preport_history_notfound_denied(user, found, raises) ==
    IF raises THEN [raised |-> TRUE, preport |-> <<>>, has_permission |-> TRUE]
    ELSE IF found = <<>> THEN [raised |-> FALSE, preport |-> <<>>, has_permission |-> FALSE]
    ELSE IF ~permitted(user, found[1])
    THEN [raised |-> FALSE, preport |-> <<>>, has_permission |-> FALSE]
    ELSE IF ~preport_validates(user, found[1])
    THEN [raised |-> TRUE, preport |-> <<>>, has_permission |-> TRUE]
    ELSE [raised |-> FALSE, preport |-> <<OrderPreportResponse(user, found[1])>>,
          has_permission |-> TRUE]

\* _build_preport_history: (preport, has_permission), or the exception it raises;
\* found is the row the order query returned
build_preport_history(user, found, raises) ==
    IF raises THEN [raised |-> TRUE, preport |-> <<>>, has_permission |-> TRUE]
    ELSE IF found = <<>> THEN [raised |-> FALSE, preport |-> <<>>, has_permission |-> TRUE]
    ELSE IF ~permitted(user, found[1])
    THEN [raised |-> FALSE, preport |-> <<>>, has_permission |-> FALSE]
    ELSE IF ~preport_validates(user, found[1])
    THEN [raised |-> TRUE, preport |-> <<>>, has_permission |-> TRUE]
    ELSE [raised |-> FALSE, preport |-> <<OrderPreportResponse(user, found[1])>>,
          has_permission |-> TRUE]

----------------------------------------------------------------------------
(* Shipment summary builder *)

\* the pallets joined to a container of that number
PalletsOfContainer(container_number) ==
    {p \in pallets : p.container_number = container_number}

\* the grouping key of a pallet row: the pallet columns and the columns of its
\* shipment batch, NULL without one (outer join)
GroupKey(p) ==
    [destination |-> p.destination, PO_ID |-> p.PO_ID,
     shipment_batch_number |-> IF p.shipment = <<>> THEN None
                               ELSE p.shipment[1].shipment_batch_number,
     shipped_at_utc |-> IF p.shipment = <<>> THEN <<>> ELSE p.shipment[1].shipped_at_utc]

\* one PalletShipmentSummary per group, with its count of distinct pallet ids
summary_rows(container_number) ==
    {[destination |-> k.destination, PO_ID |-> k.PO_ID,
      master_shipment_batch_number |-> k.shipment_batch_number,
      shipped_at |-> convert_tz(k.shipped_at_utc),
      n_pallet |-> Cardinality({p \in PalletsOfContainer(container_number) :
                                    GroupKey(p) = k})] :
        k \in {GroupKey(p) : p \in PalletsOfContainer(container_number)}}

\* _build_postport_history: the rows, or no rows when the query raises
build_postport_history(container_number, raises) ==
    [shipment |-> IF raises THEN {} ELSE summary_rows(container_number)]

----------------------------------------------------------------------------
(* Order-tracking endpoint *)

\* OrderResponse(preport_timenode, postport_timenode, has_permission, message)
OrderResponse(preport, postport, has_permission, message) ==
    [preport_timenode |-> preport, postport_timenode |-> postport,
     has_permission |-> has_permission, message |-> message]

\* the response to a customer without permission
DeniedResponse(container_number) ==
    OrderResponse(<<>>, <<>>, FALSE, <<"no permission", container_number>>)

\* the response for a container number no order has
NotFoundResponse(container_number) ==
    OrderResponse(<<>>, <<>>, TRUE, <<"not found", container_number>>)

\* the first part of build_order_full_history, with the summary query run before
\* the permission is looked at
build_order_full_history_summary_first(user, container_number, found, raises_order) ==
    LET pre == build_preport_history(user, found, raises_order)
        t1 == <<[table |-> "order", outcome |-> IF raises_order THEN "error" ELSE "ok"]>>
        t2 == t1 \o <<[table |-> "pallet", outcome |-> "ok"]>>
        answer(st, detail, body, t) ==
            [done |-> TRUE, preport |-> <<>>,
             out |-> [status |-> st, detail |-> detail, body |-> body, queried |-> t]]
    IN  IF pre.raised THEN answer(500, "Internal Server Error", <<>>, t1)
        ELSE IF ~pre.has_permission
        THEN answer(200, "", <<DeniedResponse(container_number)>>, t2)
        ELSE IF pre.preport = <<>>
        THEN answer(200, "", <<NotFoundResponse(container_number)>>, t2)
        ELSE [done |-> FALSE, preport |-> pre.preport,
              out |-> [status |-> 0, detail |-> "", body |-> <<>>, queried |-> t1]]

\* build_order_full_history from the order query to the permission and not-found
\* returns: the answer, or no answer yet and the preport data
build_order_full_history_preport(user, container_number, found, raises_order) ==
    LET pre == build_preport_history(user, found, raises_order)
        t1 == <<[table |-> "order", outcome |-> IF raises_order THEN "error" ELSE "ok"]>>
        answer(st, detail, body) ==
            [done |-> TRUE, preport |-> <<>>,
             out |-> [status |-> st, detail |-> detail, body |-> body, queried |-> t1]]
    IN  IF pre.raised THEN answer(500, "Internal Server Error", <<>>)
        ELSE IF ~pre.has_permission
        THEN answer(200, "", <<DeniedResponse(container_number)>>)
        ELSE IF pre.preport = <<>>
        THEN answer(200, "", <<NotFoundResponse(container_number)>>)
        ELSE [done |-> FALSE, preport |-> pre.preport,
              out |-> [status |-> 0, detail |-> "", body |-> <<>>, queried |-> t1]]

\* the last part of build_order_full_history with a summary builder that lets its
\* query error out
build_order_full_history_propagating(preport, container_number, raises_pallet, queried) ==
    LET t2 == queried \o <<[table |-> "pallet",
                            outcome |-> IF raises_pallet THEN "error" ELSE "ok"]>>
    IN  IF raises_pallet
        THEN [status |-> 500, detail |-> "Internal Server Error", body |-> <<>>,
              queried |-> t2]
        ELSE [status |-> 200, detail |-> "",
              body |-> <<OrderResponse(preport,
                                       <<build_postport_history(container_number, FALSE)>>,
                                       TRUE, None)>>,
              queried |-> t2]

\* build_order_full_history from the summary query to its return, after the
\* queries in queried
build_order_full_history_postport(preport, container_number, raises_pallet, queried) ==
    [status |-> 200, detail |-> "",
     body |-> <<OrderResponse(preport,
                              <<build_postport_history(container_number, raises_pallet)>>,
                              TRUE, None)>>,
     queried |-> queried \o <<[table |-> "pallet",
                                outcome |-> IF raises_pallet THEN "error" ELSE "ok"]>>]

\* build_order_full_history for a resolved user, on a store that stays as it is
\* between the two queries: status, body and the queries run
build_order_full_history(user, container_number, found, raises_order, raises_pallet) ==
    LET h == build_order_full_history_preport(user, container_number, found, raises_order)
    IN  IF h.done THEN h.out
        ELSE build_order_full_history_postport(h.preport, container_number, raises_pallet,
                                               h.out.queried)

\* get_order_full_history: the dependency get_current_user, then the lookup of the
\* stripped container number
get_order_full_history(token, container_number, found, raises_user, raises_order, raises_pallet) ==
    LET who == get_current_user(token, raises_user)
        out == build_order_full_history(who.user[1], strip(container_number), found,
                                        raises_order, raises_pallet)
    IN  IF who.status # 200
        THEN [status |-> who.status, detail |-> who.detail, user |-> <<>>,
              found |-> <<>>, body |-> <<>>, queried |-> who.queried]
        ELSE [status |-> out.status, detail |-> out.detail, user |-> who.user,
              found |-> IF raises_order THEN <<>> ELSE found, body |-> out.body,
              queried |-> who.queried \o out.queried]

----------------------------------------------------------------------------
(* Rows of the store *)

\* a warehouse_customer row
Customer(id, username, password, zn, full_name, zem_code) ==
    [id |-> id, username |-> username, password |-> password, zem_name |-> zn,
     full_name |-> full_name, zem_code |-> zem_code]

\* an auth_user row
AuthUser(id, username, password, first_name, last_name, active) ==
    [id |-> id, username |-> username, password |-> password,
     first_name |-> first_name, last_name |-> last_name, is_active |-> active,
     last_login |-> <<>>]

\* a warehouse_retrieval row
Retrieval(pod_arrive, pod_discharge, scheduled, target, arrived, arrive_at, precise, returned, returned_at) ==
    [temp_t49_pod_arrive_at |-> pod_arrive, temp_t49_pod_discharge_at |-> pod_discharge,
     scheduled_at |-> scheduled, target_retrieval_timestamp |-> target,
     arrive_at_destination |-> arrived, arrive_at |-> arrive_at,
     retrieval_destination_precise |-> precise, empty_returned |-> returned,
     empty_returned_at |-> returned_at]

\* a warehouse_order row with the rows it joins
Order(id, container_id, container_number, owner, created_at, t49, warehouse, vessel, retrieval, offload) ==
    [id |-> id, container_number_id |-> container_id,
     container_number |-> container_number, customer_name_id |-> owner,
     created_at |-> created_at, add_to_t49 |-> t49, warehouse |-> warehouse,
     vessel |-> vessel, retrieval |-> retrieval, offload |-> offload]

\* a warehouse_shipment row
Shipment(batch, shipped_at) == [shipment_batch_number |-> batch, shipped_at_utc |-> shipped_at]

\* a warehouse_pallet row with its container and shipment batch
Pallet(id, container_id, container_number, destination, po, shipment) ==
    [id |-> id, container_number_id |-> container_id,
     container_number |-> container_number, destination |-> destination,
     PO_ID |-> po, shipment |-> shipment]

----------------------------------------------------------------------------
(* Requests *)

UsernameInputs == Strings(MaxUserLen)

PasswordInputs == {<<>>, <<"p">>, <<"q">>}

ContainerInputs == {<<"a">>, <<" ", "a", " ">>, <<"b">>}

\* a token that does not parse
MalformedToken ==
    [wellformed |-> FALSE, payload |-> <<"{">>, sig |-> <<>>]

\* a token whose payload was changed after signing
TamperedToken ==
    [wellformed |-> TRUE, payload |-> json_dumps(Claims(<<"a">>, Missing, STAFF)),
     sig |-> HMAC(SECRET_KEY, json_dumps(Claims(<<"a">>, Missing, CUSTOMER)))]

\* the bearer tokens a request can carry besides one that login returned
TokenInputs ==
    {<<>>, <<MalformedToken>>, <<TamperedToken>>,
     <<jwt_encode(Claims(<<"a">>, Missing, STAFF), OTHER_KEY)>>}
    \cup {<<jwt_encode(Claims(u, Missing, t), SECRET_KEY)>> :
            u \in {<<"a">>, <<"b">>, Missing},
            t \in {CUSTOMER, STAFF, <<"admin">>, Missing}}
    \cup {<<jwt_encode(Claims(None, None, None), SECRET_KEY)>>}

NoLogin == [username |-> <<>>, password |-> <<>>, resp |-> HTTPException(0, "", <<>>)]

NoTrack ==
    [token |-> <<>>, container_number |-> <<>>,
     resp |-> [status |-> 0, detail |-> "", user |-> <<>>, found |-> <<>>,
               body |-> <<>>, queried |-> <<>>],
     accounts_read |-> {}, orders_read |-> {}, owners_read |-> {}]

\* the record of the first token the client obtained: nothing yet
NoIssue ==
    [token |-> <<>>, username |-> <<>>, resp |-> <<>>, account |-> <<>>, later |-> 0]

\* the processes that serve requests side by side
NumProcs == 2

Procs == 1..NumProcs

\* a process that serves no request.  A request in flight keeps its inputs, the
\* place it has reached (pc), the locals of its handler (user, found, pre, the
\* account row a login verified), the queries it ran, and the rows that matched
\* each query of a lookup when it ran: the accounts of the token's login name,
\* the orders of the container and the owners joined to them
NoReq ==
    [kind |-> "none", pc |-> "idle", username |-> <<>>, password |-> <<>>,
     token |-> <<>>, container_number |-> <<>>, user |-> <<>>, found |-> <<>>,
     pre |-> <<>>, account |-> <<>>, queried |-> <<>>, resp |-> <<>>,
     accounts_read |-> {}, orders_read |-> {}, owners_read |-> {}]

NoReqs == [p \in Procs |-> NoReq]

\* the process that serves the client that sends one request at a time
Client == CHOOSE p \in Procs : \A q \in Procs : p <= q

\* the login the client has an answer to, NoLogin when it has none
loginOut ==
    IF reqs[Client].kind = "login" /\ reqs[Client].pc = "done"
    THEN [username |-> reqs[Client].username, password |-> reqs[Client].password,
          resp |-> reqs[Client].resp[1]]
    ELSE NoLogin

\* the lookup the client has an answer to, NoTrack when it has none
trackOut ==
    IF reqs[Client].kind = "track" /\ reqs[Client].pc = "done"
    THEN [token |-> reqs[Client].token,
          container_number |-> reqs[Client].container_number,
          resp |-> reqs[Client].resp[1],
          accounts_read |-> reqs[Client].accounts_read,
          orders_read |-> reqs[Client].orders_read,
          owners_read |-> reqs[Client].owners_read]
    ELSE NoTrack

----------------------------------------------------------------------------
(* Actions: a request is served in steps, one for each query it sends to the
   database; between two steps other requests and other programs that write
   the database can run *)

\* an identity kept in one place for all requests: that of the first request in
\* flight that has one
current_user_shared(p) ==
    reqs[CHOOSE q \in Procs : /\ reqs[q].user # <<>>
                              /\ \A r \in Procs : reqs[r].user # <<>> => q <= r].user[1]

\* the current_user the framework injects into the request p serves
current_user(p) == reqs[p].user[1]

\* login up to its input check
NewLogin(username, password) ==
    IF username = <<>> \/ password = <<>>
    THEN [NoReq EXCEPT !.kind = "login", !.pc = "done",
                       !.username = username, !.password = password,
                       !.resp = <<login(username, password, FALSE, FALSE)>>]
    ELSE [NoReq EXCEPT !.kind = "login", !.pc = "customer_query",
                       !.username = username, !.password = password]

\* a lookup request before its dependencies run
NewTrack(token, container_number) ==
    [NoReq EXCEPT !.kind = "track", !.pc = "resolve", !.token = token,
                  !.container_number = container_number]

\* POST /login arrives at process p
ReceiveLogin(p, username, password) ==
    /\ reqs[p].pc = "idle"
    /\ reqs' = [reqs EXCEPT ![p] = NewLogin(username, password)]
    /\ UNCHANGED <<store, heldToken, issued, localOffset>>

\* login from its customer query to the answer of the customer branch
CustomerQuery(p, raises) ==
    /\ reqs[p].pc = "customer_query"
    /\ LET r == reqs[p]
           c == login_customer_query(strip(r.username), r.password, raises)
       IN  reqs' = [reqs EXCEPT ![p] =
                      IF c.done
                      THEN [r EXCEPT !.pc = "done", !.account = c.account,
                                     !.queried = c.out.queried, !.resp = <<c.out>>]
                      ELSE [r EXCEPT !.pc = "staff_query", !.queried = c.out.queried]]
    /\ UNCHANGED <<store, heldToken, issued, localOffset>>

\* a staff query that also writes the time of the login into the row it read
StaffQuery_recording_last_login(p, raises) ==
    /\ reqs[p].pc = "staff_query"
    /\ LET r == reqs[p]
           c == login_staff_query(strip(r.username), r.password, raises, r.queried)
       IN  /\ reqs' = [reqs EXCEPT ![p] =
                         [r EXCEPT !.pc = "done", !.account = c.account,
                                   !.queried = c.out.queried, !.resp = <<c.out>>]]
           /\ staffs' = IF c.out.status = 200
                        THEN {IF <<st>> = c.account
                              THEN [st EXCEPT !.last_login = <<1>>] ELSE st :
                                st \in staffs}
                        ELSE staffs
    /\ UNCHANGED <<customers, orders, pallets, heldToken, issued, localOffset>>

\* login from its staff query to its answer
StaffQuery(p, raises) ==
    /\ reqs[p].pc = "staff_query"
    /\ LET r == reqs[p]
           c == login_staff_query(strip(r.username), r.password, raises, r.queried)
       IN  reqs' = [reqs EXCEPT ![p] =
                      [r EXCEPT !.pc = "done", !.account = c.account,
                                !.queried = c.out.queried, !.resp = <<c.out>>]]
    /\ UNCHANGED <<store, heldToken, issued, localOffset>>

\* POST /order_tracking arrives at process p
ReceiveTrack(p, token, container_number) ==
    /\ reqs[p].pc = "idle"
    /\ reqs' = [reqs EXCEPT ![p] = NewTrack(token, container_number)]
    /\ UNCHANGED <<store, heldToken, issued, localOffset>>

\* the dependency get_current_user of the lookup, with its account query
ResolveUser(p, raises) ==
    /\ reqs[p].pc = "resolve"
    /\ LET r == reqs[p]
           who == get_current_user(r.token, raises)
           read == IF who.queried = <<>> \/ raises THEN {}
                   ELSE RowsByUsername(IF who.queried[1].table = "customer"
                                       THEN customers ELSE staffs,
                                       token_claims(r.token[1]).user_name)
       IN  reqs' = [reqs EXCEPT ![p] =
                      IF who.status # 200
                      THEN [r EXCEPT !.pc = "done", !.queried = who.queried,
                                     !.accounts_read = read,
                                     !.resp = <<[status |-> who.status,
                                                 detail |-> who.detail, user |-> <<>>,
                                                 found |-> <<>>, body |-> <<>>,
                                                 queried |-> who.queried]>>]
                      ELSE [r EXCEPT !.pc = "order_query", !.user = who.user,
                                     !.queried = who.queried, !.accounts_read = read]]
    /\ UNCHANGED <<store, heldToken, issued, localOffset>>

\* the lookup from its order query to the permission check and the timeline
OrderQuery(p, raises) ==
    /\ reqs[p].pc = "order_query"
    /\ \E found \in FirstOrder(strip(reqs[p].container_number)) :
          LET r == reqs[p]
              h == build_order_full_history_preport(current_user(p),
                                                    strip(r.container_number), found,
                                                    raises)
              t == r.queried \o h.out.queried
              row == IF raises THEN <<>> ELSE found
              matched == IF raises THEN {}
                         ELSE OrdersOfContainer(strip(r.container_number))
              owners == {c \in customers : \E o \in matched : o.customer_name_id = <<c.id>>}
          IN  reqs' = [reqs EXCEPT ![p] =
                         IF h.done
                         THEN [r EXCEPT !.pc = "done", !.found = row, !.queried = t,
                                        !.orders_read = matched, !.owners_read = owners,
                                        !.resp = <<[status |-> h.out.status,
                                                    detail |-> h.out.detail,
                                                    user |-> r.user, found |-> row,
                                                    body |-> h.out.body, queried |-> t]>>]
                         ELSE [r EXCEPT !.pc = "pallet_query", !.found = row,
                                        !.pre = h.preport, !.queried = t,
                                        !.orders_read = matched,
                                        !.owners_read = owners]]
    /\ UNCHANGED <<store, heldToken, issued, localOffset>>

\* the lookup from its shipment summary query to its answer
PalletQuery(p, raises) ==
    /\ reqs[p].pc = "pallet_query"
    /\ LET r == reqs[p]
           o == build_order_full_history_postport(r.pre, strip(r.container_number),
                                                  raises, r.queried)
       IN  reqs' = [reqs EXCEPT ![p] =
                      [r EXCEPT !.pc = "done", !.queried = o.queried,
                                !.resp = <<[status |-> o.status, detail |-> o.detail,
                                            user |-> r.user, found |-> r.found,
                                            body |-> o.body, queried |-> o.queried]>>]]
    /\ UNCHANGED <<store, heldToken, issued, localOffset>>

\* the response is sent and the request's session is closed
Respond(p) ==
    /\ reqs[p].pc = "done"
    /\ reqs' = [reqs EXCEPT ![p] = NoReq]
    /\ UNCHANGED <<store, heldToken, issued, localOffset>>

\* the token the client holds once it has read the answer it waits for
HeldAfter ==
    IF loginOut.resp.status = 200 THEN loginOut.resp.access_token ELSE heldToken

\* the response is sent to the client, which keeps the token of a login that
\* succeeded; the next request can be sent
Deliver ==
    /\ reqs[Client].pc = "done"
    /\ reqs' = [reqs EXCEPT ![Client] = NoReq]
    /\ heldToken' = HeldAfter
    /\ UNCHANGED <<store, issued, localOffset>>

\* another program deletes a customer account no order refers to
DeleteCustomer(c) ==
    /\ c \in customers
    /\ \A o \in orders : o.customer_name_id # <<c.id>>
    /\ customers' = customers \ {c}
    /\ UNCHANGED <<staffs, orders, pallets, heldToken, issued, localOffset, reqs>>

\* another program deletes a staff account
DeleteStaff(s) ==
    /\ s \in staffs
    /\ staffs' = staffs \ {s}
    /\ UNCHANGED <<customers, orders, pallets, heldToken, issued, localOffset, reqs>>

----------------------------------------------------------------------------
(* Stores the specifications start from *)

\* a retrieval with every stage recorded
FullRetrieval ==
    Retrieval(<<1>>, <<2>>, <<3>>, <<4>>, TRUE, <<5>>, <<"a">>, TRUE, <<7>>)

\* the event data an order can carry: none, every stage, and stages recorded
\* without t49 tracking and without an offload row
EventProfiles ==
    {[add_to_t49 |-> FALSE, vessel |-> <<>>, retrieval |-> <<>>, offload |-> <<>>],
     [add_to_t49 |-> TRUE, vessel |-> <<[destination_port |-> <<"b">>]>>,
      retrieval |-> <<FullRetrieval>>, offload |-> <<[offload_at |-> <<6>>]>>],
     [add_to_t49 |-> FALSE, vessel |-> <<[destination_port |-> None]>>,
      retrieval |-> <<FullRetrieval>>, offload |-> <<>>]}

Warehouses == {<<>>, <<[name |-> None]>>, <<[name |-> <<"a">>]>>}

OrderOf(id, container_number, owner, created_at, warehouse, ev) ==
    Order(id, id, container_number, owner, created_at, ev.add_to_t49, warehouse, ev.vessel,
          ev.retrieval, ev.offload)

SomePallets ==
    {Pallet(1, 1, <<"a">>, <<"a">>, <<"a">>, <<>>),
     Pallet(2, 1, <<"a">>, <<"a">>, <<"a">>, <<>>),
     Pallet(3, 1, <<"a">>, <<"b">>, <<"a">>, <<Shipment(<<"b">>, <<3>>)>>),
     Pallet(4, 3, <<"b">>, <<"a">>, <<"a">>, <<>>),
     Pallet(5, 1, <<"a">>, <<"b">>, <<"b">>, <<Shipment(<<"a">>, <<>>)>>)}

\* the usernames of the request flow: of the accounts, padded, blank, unknown
FlowUsernames == {<<>>, <<" ">>, <<"a">>, <<" ", "a">>, <<"b">>, <<"a", "b">>}

\* the tokens of the request flow besides the one login returned
FlowTokens ==
    {<<>>, <<TamperedToken>>}
    \cup {<<jwt_encode(Claims(u, Missing, t), SECRET_KEY)>> :
            u \in {<<"a">>, <<"b">>}, t \in {CUSTOMER, STAFF}}

\* the accounts, orders and pallets of the request flow
Init ==
    /\ \E zn \in {None, <<"a">>}, others \in SUBSET {2} :
          customers =
              {Customer(1, <<"a">>, DjangoHash(<<"p">>), zn, <<"a">>, <<"a">>)}
              \cup {Customer(i, <<"b">>, DjangoHash(<<"q">>), <<"b">>, None, None) :
                      i \in others}
    /\ \E un \in {<<"a">>, <<"b">>} :
          staffs = {AuthUser(1, un, DjangoHash(<<"q">>), <<>>, <<>>, TRUE)}
    /\ \E owner \in {<<>>} \cup {<<c.id>> : c \in customers}, ev \in EventProfiles :
          orders = {OrderOf(1, <<"a">>, owner, <<0>>, <<>>, ev)}
    /\ pallets = SomePallets
    /\ heldToken = <<>>
    /\ issued = NoIssue
    /\ localOffset = 0
    /\ reqs = NoReqs

\* the steps of a login of the client, each query failing or not
LoginSteps ==
    \/ \E r \in BOOLEAN : CustomerQuery(Client, r)
    \/ \E r \in BOOLEAN : StaffQuery(Client, r)

\* the steps of a lookup of the client, each query failing or not
TrackSteps ==
    \/ \E r \in BOOLEAN : ResolveUser(Client, r)
    \/ \E r \in BOOLEAN : OrderQuery(Client, r)
    \/ \E r \in BOOLEAN : PalletQuery(Client, r)

Next ==
    \/ \E u \in FlowUsernames, p \in PasswordInputs : ReceiveLogin(Client, u, p)
    \/ LoginSteps
    \/ \E t \in FlowTokens \cup {heldToken}, cn \in ContainerInputs :
          ReceiveTrack(Client, t, cn)
    \/ TrackSteps
    \/ \E c \in customers : DeleteCustomer(c)
    \/ \E s \in staffs : DeleteStaff(s)
    \/ Deliver

Spec == Init /\ [][Next]_vars

\* a full name that json.dumps has to escape: a backslash and a double quote
QuotedName == <<"\\", "\"">>

\* the account tables the login endpoint is exercised on
InitLogin ==
    /\ customers \in
          {{}} \cup
          {{Customer(1, <<"a">>, pw, zn, fn, <<"a">>)} :
              pw \in {DjangoHash(<<"p">>)} \cup UnusableHashes,
              zn \in {None, <<"a">>}, fn \in {None, <<"b">>, QuotedName}}
    /\ staffs \in
          {{}} \cup
          {{AuthUser(1, un, pw, fn, <<>>, act)} :
              un \in {<<"a">>, <<"b">>},
              pw \in {DjangoHash(<<"p">>), DjangoHash(<<"q">>), <<>>, MalformedHash},
              fn \in {<<>>, <<"a">>}, act \in BOOLEAN}
    /\ orders = {}
    /\ pallets = {}
    /\ heldToken = <<>>
    /\ issued = NoIssue
    /\ localOffset = 0
    /\ reqs = NoReqs

NextLogin ==
    \/ \E u \in UsernameInputs, p \in PasswordInputs : ReceiveLogin(Client, u, p)
    \/ LoginSteps
    \/ Deliver

SpecLogin == InitLogin /\ [][NextLogin]_vars

\* the orders the tracking endpoint is exercised on
InitTrack ==
    /\ customers \in
          {{Customer(1, <<"a">>, DjangoHash(<<"p">>), zn, fn, zc),
            Customer(2, <<"b">>, DjangoHash(<<"q">>), <<"b">>, <<"b">>, <<"b">>)} :
              zn \in {None, <<"a">>}, fn \in {None, <<"a">>}, zc \in {None, <<"a">>}}
    /\ staffs = {AuthUser(1, <<"b">>, DjangoHash(<<"q">>), <<>>, <<>>, TRUE)}
    /\ \E owner \in {<<>>, <<1>>, <<2>>}, created \in {<<>>, <<0>>}, wh \in Warehouses,
          ev \in EventProfiles, more \in BOOLEAN :
          /\ orders = {OrderOf(1, <<"a">>, owner, created, wh, ev)}
                      \cup (IF more
                            THEN {OrderOf(2, <<"a">>, <<2>>, <<0>>, <<>>,
                                          [add_to_t49 |-> FALSE, vessel |-> <<>>,
                                           retrieval |-> <<>>, offload |-> <<>>])}
                            ELSE {})
          /\ pallets = SomePallets
                       \cup (IF more
                             THEN {Pallet(6, 2, <<"a">>, <<"a">>, <<"b">>, <<>>)}
                             ELSE {})
    /\ heldToken = <<>>
    /\ issued = NoIssue
    /\ localOffset = 0
    /\ reqs = NoReqs

NextTrack ==
    \/ \E t \in TokenInputs, cn \in ContainerInputs : ReceiveTrack(Client, t, cn)
    \/ TrackSteps
    \/ Deliver

SpecTrack == InitTrack /\ [][NextTrack]_vars

\* the retrieval rows of the timeline: each stage recorded or not, with timestamps
\* that do not follow the order of the stages
TimelineRetrievals ==
    {Retrieval(pa, pd, sc, <<4>>, arr, at, <<"a">>, ret, <<1>>) :
        pa \in {<<>>, <<9>>}, pd \in {<<>>, <<2>>}, sc \in {<<>>, <<3>>},
        arr \in BOOLEAN, at \in {<<>>, <<5>>}, ret \in BOOLEAN}

\* the event data of the timeline: every combination of the triggering fields
TimelineProfiles ==
    [add_to_t49 : BOOLEAN,
     vessel : {<<>>, <<[destination_port |-> None]>>, <<[destination_port |-> <<"b">>]>>},
     retrieval : {<<>>} \cup {<<r>> : r \in TimelineRetrievals},
     offload : {<<>>, <<[offload_at |-> <<>>]>>, <<[offload_at |-> <<6>>]>>}]

\* one order of customer a, with any event data, and the two accounts that ask
InitTimeline ==
    /\ customers = {Customer(1, <<"a">>, DjangoHash(<<"p">>), <<"a">>, <<"a">>, <<"a">>)}
    /\ staffs = {AuthUser(1, <<"b">>, DjangoHash(<<"q">>), <<>>, <<>>, TRUE)}
    /\ \E ev \in TimelineProfiles : orders = {OrderOf(1, <<"a">>, <<1>>, <<0>>, <<>>, ev)}
    /\ pallets = SomePallets
    /\ heldToken = <<>>
    /\ issued = NoIssue
    /\ localOffset \in LocalOffsets
    /\ reqs = NoReqs

\* the tokens login issues for customer a and for staff b
TimelineTokens ==
    {<<jwt_encode(Claims(<<"a">>, <<"a">>, CUSTOMER), SECRET_KEY)>>,
     <<jwt_encode(Claims(<<"b">>, <<"b">>, STAFF), SECRET_KEY)>>}

NextTimeline ==
    \/ \E t \in TimelineTokens, cn \in ContainerInputs : ReceiveTrack(Client, t, cn)
    \/ ResolveUser(Client, FALSE)
    \/ \E r \in BOOLEAN : OrderQuery(Client, r)
    \/ \E r \in BOOLEAN : PalletQuery(Client, r)
    \/ Deliver

SpecTimeline == InitTimeline /\ [][NextTimeline]_vars

----------------------------------------------------------------------------
(* A client session over a store that other programs write *)

\* most later requests counted after the first token
MaxLater == 3

\* n + 1, held at MaxLater
Later(n) == IF n < MaxLater THEN n + 1 ELSE n

\* a login of the session is sent; a request after the first token is counted
SessionLogin(username, password) ==
    /\ reqs[Client].pc = "idle"
    /\ reqs' = [reqs EXCEPT ![Client] = NewLogin(username, password)]
    /\ issued' = IF issued.token # <<>> THEN [issued EXCEPT !.later = Later(@)]
                  ELSE issued
    /\ UNCHANGED <<store, heldToken, localOffset>>

\* a lookup of the session is sent; a request after the first token is counted
SessionTrack(token, container_number) ==
    /\ reqs[Client].pc = "idle"
    /\ reqs' = [reqs EXCEPT ![Client] = NewTrack(token, container_number)]
    /\ issued' = IF issued.token # <<>> THEN [issued EXCEPT !.later = Later(@)]
                  ELSE issued
    /\ UNCHANGED <<store, heldToken, localOffset>>

\* the client reads the answer; the first token it obtains is kept, with the
\* login that returned it and the account row that login verified
SessionDeliver ==
    /\ reqs[Client].pc = "done"
    /\ reqs' = [reqs EXCEPT ![Client] = NoReq]
    /\ heldToken' = HeldAfter
    /\ issued' =
          IF issued.token # <<>> \/ loginOut.resp.status # 200 THEN issued
          ELSE [token |-> loginOut.resp.access_token,
                username |-> loginOut.username, resp |-> <<loginOut.resp>>,
                account |-> reqs[Client].account, later |-> 0]
    /\ UNCHANGED <<store, localOffset>>

\* the zem_name values an external writer gives a customer
NewZemNames == {<<"a">>, <<"b">>, <<"a", "b">>}

\* another program changes the zem_name of a customer (the column is unique)
RenameCustomer(c, zn) ==
    /\ c \in customers
    /\ zn # c.zem_name
    /\ \A d \in customers : d.zem_name # zn
    /\ customers' = (customers \ {c}) \cup {[c EXCEPT !.zem_name = zn]}
    /\ UNCHANGED <<staffs, orders, pallets, heldToken, issued, localOffset, reqs>>

\* another program gives an order another owner, or none
ReassignOrder(o, owner) ==
    /\ o \in orders
    /\ owner # o.customer_name_id
    /\ owner = <<>> \/ \E c \in customers : owner = <<c.id>>
    /\ orders' = (orders \ {o}) \cup {[o EXCEPT !.customer_name_id = owner]}
    /\ UNCHANGED <<customers, staffs, pallets, heldToken, issued, localOffset, reqs>>

\* another program deactivates a staff account
DeactivateStaff(st) ==
    /\ st \in staffs
    /\ st.is_active
    /\ staffs' = (staffs \ {st}) \cup {[st EXCEPT !.is_active = FALSE]}
    /\ UNCHANGED <<customers, orders, pallets, heldToken, issued, localOffset, reqs>>

\* two customers, a staff member and an order of the first customer
InitSession ==
    /\ customers = {Customer(1, <<"a">>, DjangoHash(<<"p">>), <<"a">>, <<"a">>, <<"a">>),
                    Customer(2, <<"b">>, DjangoHash(<<"q">>), <<"b">>, <<"b">>, <<"b">>)}
    /\ staffs = {AuthUser(1, <<"a", "b">>, DjangoHash(<<"q">>), <<>>, <<>>, TRUE)}
    /\ orders = {OrderOf(1, <<"a">>, <<1>>, <<0>>, <<>>,
                         [add_to_t49 |-> FALSE, vessel |-> <<>>, retrieval |-> <<>>,
                          offload |-> <<>>])}
    /\ pallets = SomePallets
    /\ heldToken = <<>>
    /\ issued = NoIssue
    /\ localOffset = 0
    /\ reqs = NoReqs

NextSession ==
    \/ \E u \in {<<"a">>, <<"b">>, <<"a", "b">>}, p \in {<<"p">>, <<"q">>} :
          SessionLogin(u, p)
    \/ CustomerQuery(Client, FALSE)
    \/ StaffQuery(Client, FALSE)
    \/ \E t \in {heldToken, issued.token} : SessionTrack(t, <<"a">>)
    \/ \E r \in BOOLEAN : ResolveUser(Client, r)
    \/ OrderQuery(Client, FALSE)
    \/ PalletQuery(Client, FALSE)
    \/ \E c \in customers, zn \in NewZemNames : RenameCustomer(c, zn)
    \/ \E o \in orders, owner \in {<<>>, <<1>>, <<2>>} : ReassignOrder(o, owner)
    \/ \E c \in customers : DeleteCustomer(c)
    \/ \E st \in staffs : DeactivateStaff(st)
    \/ SessionDeliver

SpecSession == InitSession /\ [][NextSession]_vars

\* the stores of the round trip: a customer a, a customer with an empty username
\* whose zem_name is the username of a third customer, a staff account whose
\* username can be that of customer a, and an order without an owner
InitRoundTrip ==
    /\ \E zn \in {None, <<"a">>}, fn \in {None, <<"b">>, QuotedName},
          some \in SUBSET {1, 2, 3} :
          customers =
              {c \in {Customer(1, <<"a">>, DjangoHash(<<"p">>), zn, fn, <<"a">>),
                      Customer(2, <<>>, DjangoHash(<<"q">>), <<"b">>, <<"b">>, <<"b">>),
                      Customer(3, <<"b">>, DjangoHash(<<"q">>), <<"c">>, <<"c">>, <<"c">>)} :
                  c.id \in some}
    /\ staffs \in
          {{}} \cup
          {{AuthUser(1, un, DjangoHash(<<"p">>), fn, <<>>, TRUE)} :
              un \in {<<"a">>, <<"a", "b">>}, fn \in {<<>>, <<"a">>}}
    /\ orders = {OrderOf(1, <<"a">>, <<>>, <<0>>, <<>>,
                         [add_to_t49 |-> FALSE, vessel |-> <<>>, retrieval |-> <<>>,
                          offload |-> <<>>])}
    /\ pallets = SomePallets
    /\ heldToken = <<>>
    /\ issued = NoIssue
    /\ localOffset = 0
    /\ reqs = NoReqs

\* the usernames typed: with and without blanks around them, and blanks only
RoundTripUsernames == {<<"a">>, <<" ", "a">>, <<"b">>, <<" ">>, <<"a", "b">>}

\* logins, and lookups with the token of the first login that succeeded
NextRoundTrip ==
    \/ \E u \in RoundTripUsernames, p \in {<<"p">>, <<"q">>} : SessionLogin(u, p)
    \/ CustomerQuery(Client, FALSE)
    \/ StaffQuery(Client, FALSE)
    \/ issued.token # <<>> /\ SessionTrack(issued.token, <<"a">>)
    \/ ResolveUser(Client, FALSE)
    \/ OrderQuery(Client, FALSE)
    \/ PalletQuery(Client, FALSE)
    \/ SessionDeliver

SpecRoundTrip == InitRoundTrip /\ [][NextRoundTrip]_vars

----------------------------------------------------------------------------
(* Requests served side by side: each request has its own parsed body, its own
   database session and its own resolved identity *)

\* the login names and the tokens the concurrent clients send
ConcurrentUsernames == {<<>>, <<"a">>, <<"b">>, <<"a", "b">>}

ConcurrentTokens ==
    {<<jwt_encode(Claims(<<"a">>, <<"a">>, CUSTOMER), SECRET_KEY)>>,
     <<jwt_encode(Claims(<<"b">>, <<"b">>, CUSTOMER), SECRET_KEY)>>,
     <<jwt_encode(Claims(<<"a", "b">>, <<"a", "b">>, STAFF), SECRET_KEY)>>,
     <<TamperedToken>>}

\* two customers with an order each, and a staff account
InitConcurrent ==
    /\ customers = {Customer(1, <<"a">>, DjangoHash(<<"p">>), <<"a">>, <<"a">>, <<"a">>),
                    Customer(2, <<"b">>, DjangoHash(<<"q">>), <<"b">>, <<"b">>, <<"b">>)}
    /\ staffs = {AuthUser(1, <<"a", "b">>, DjangoHash(<<"p">>), <<>>, <<>>, TRUE)}
    /\ orders = {OrderOf(1, <<"a">>, <<1>>, <<0>>, <<>>,
                         [add_to_t49 |-> TRUE, vessel |-> <<[destination_port |-> <<"b">>]>>,
                          retrieval |-> <<FullRetrieval>>,
                          offload |-> <<[offload_at |-> <<6>>]>>]),
                 OrderOf(3, <<"b">>, <<2>>, <<0>>, <<>>,
                         [add_to_t49 |-> FALSE, vessel |-> <<>>, retrieval |-> <<>>,
                          offload |-> <<>>])}
    /\ pallets = SomePallets
    /\ heldToken = <<>>
    /\ issued = NoIssue
    /\ localOffset = 0
    /\ reqs = NoReqs

NextConcurrent ==
    \/ \E p \in Procs, u \in ConcurrentUsernames, pw \in {<<"p">>, <<"q">>} :
          ReceiveLogin(p, u, pw)
    \/ \E p \in Procs : CustomerQuery(p, FALSE)
    \/ \E p \in Procs : StaffQuery(p, FALSE)
    \/ \E p \in Procs, t \in ConcurrentTokens, cn \in {<<"a">>, <<"b">>} :
          ReceiveTrack(p, t, cn)
    \/ \E p \in Procs : ResolveUser(p, FALSE)
    \/ \E p \in Procs : OrderQuery(p, FALSE)
    \/ \E p \in Procs : PalletQuery(p, FALSE)
    \/ \E p \in Procs : Respond(p)

SpecConcurrent == InitConcurrent /\ [][NextConcurrent]_vars

----------------------------------------------------------------------------
(* Reading the request and the response of the order-tracking endpoint *)

\* the token of the request verifies under the process signing key
ReqSigned == trackOut.token # <<>> /\ jwt_valid(trackOut.token[1], SECRET_KEY)

\* the accounts of a table that the request's token names, for a validly signed
\* token of that account kind
NamedAccounts(table, kind) ==
    IF ReqSigned /\ token_claims(trackOut.token[1]).user_type = kind
    THEN RowsByUsername(table, token_claims(trackOut.token[1]).user_name)
    ELSE {}

\* the order row the lookup read, <<>> when it read none
Found == trackOut.resp.found

\* the order query ran and did not raise
OrderQueryRan ==
    \E i \in 1..Len(trackOut.resp.queried) :
        /\ trackOut.resp.queried[i].table = "order"
        /\ trackOut.resp.queried[i].outcome = "ok"

\* the response is the denied-permission response
IsDenied ==
    /\ trackOut.resp.status = 200
    /\ trackOut.resp.body # <<>>
    /\ ~trackOut.resp.body[1].has_permission

----------------------------------------------------------------------------
(* Claims on the order lookup *)

\* the owner account of the order in the store, <<>> without one
StoreOwner(order) ==
    IF \E c \in customers : order.customer_name_id = <<c.id>>
    THEN <<CHOOSE c \in customers : order.customer_name_id = <<c.id>>>>
    ELSE <<>>

\* C1: for a customer identity and an order whose owner account has another
\* zem_name than the customer, the lookup answers has_permission = FALSE with no
\* preport and no postport, and the whole response is determined by the requested
\* container number alone, whatever event data the order carries.
C1_DeniedForOtherOwner ==
    \A c \in NamedAccounts(customers, CUSTOMER) :
        (/\ Found # <<>>
         /\ StoreOwner(Found[1]) # <<>>
         /\ StoreOwner(Found[1])[1].zem_name # c.zem_name)
        => /\ trackOut.resp.status = 200
           /\ trackOut.resp.body =
                 <<[preport_timenode |-> <<>>, postport_timenode |-> <<>>,
                    has_permission |-> FALSE,
                    message |-> <<"no permission", strip(trackOut.container_number)>>]>>

\* C1 happens: a customer is refused an order of another owner that carries a
\* retrieval and an offload record.
C1_Witness ==
    /\ \E c \in NamedAccounts(customers, CUSTOMER) :
          /\ Found # <<>>
          /\ StoreOwner(Found[1]) # <<>>
          /\ StoreOwner(Found[1])[1].zem_name # c.zem_name
          /\ Found[1].retrieval # <<>>
          /\ Found[1].offload # <<>>
    /\ IsDenied

\* C2: for a customer identity, whatever its zem_name, and an order without an
\* owner account, the lookup answers has_permission = FALSE and exposes no order
\* fields.  (Stated on the answers the lookup gives: a request that ends in an
\* error exposes nothing.)
C2_DeniedWithoutOwner ==
    \A c \in NamedAccounts(customers, CUSTOMER) :
        (/\ Found # <<>>
         /\ Found[1].customer_name_id = <<>>
         /\ trackOut.resp.status = 200)
        => /\ IsDenied
           /\ trackOut.resp.body[1].preport_timenode = <<>>
           /\ trackOut.resp.body[1].postport_timenode = <<>>

\* C3: for a staff identity and an existing container number, the lookup answers
\* has_permission = TRUE with the timeline, whoever owns the order.
C3_StaffAlwaysGranted ==
    \A s \in NamedAccounts(staffs, STAFF) :
        Found # <<>>
        => /\ trackOut.resp.status = 200
           /\ trackOut.resp.body # <<>>
           /\ trackOut.resp.body[1].has_permission
           /\ trackOut.resp.body[1].preport_timenode # <<>>

\* C4: for every resolved identity, customer or staff, a container number that
\* matches no order row is answered with has_permission = TRUE, no preport, no
\* postport and a message that is not empty; the answer differs from the denied
\* one.
C4_NotFoundIsGranted ==
    (/\ NamedAccounts(customers, CUSTOMER) \cup NamedAccounts(staffs, STAFF) # {}
     /\ OrderQueryRan
     /\ OrdersOfContainer(strip(trackOut.container_number)) = {})
    => /\ trackOut.resp.status = 200
       /\ trackOut.resp.body # <<>>
       /\ trackOut.resp.body[1].has_permission
       /\ trackOut.resp.body[1].preport_timenode = <<>>
       /\ trackOut.resp.body[1].postport_timenode = <<>>
       /\ trackOut.resp.body[1].message # None
       /\ trackOut.resp.body[1].message # <<>>
       /\ ~IsDenied
       /\ trackOut.resp.body[1] # DeniedResponse(strip(trackOut.container_number))

\* C4 happens: a customer asks for a container number no order has.
C4_Witness ==
    /\ NamedAccounts(customers, CUSTOMER) # {}
    /\ OrderQueryRan
    /\ OrdersOfContainer(strip(trackOut.container_number)) = {}
    /\ trackOut.resp.body # <<>>
    /\ trackOut.resp.body[1].message = <<"not found", <<"b">>>>

----------------------------------------------------------------------------
(* Reading the request and the response of the login endpoint *)

LoginAnswered == loginOut.resp.status # 0

\* both fields of the request are given
InputsGiven == loginOut.username # <<>> /\ loginOut.password # <<>>

\* the accounts of a table whose login name is the trimmed username of the request
Matching(table) == RowsByUsername(table, strip(loginOut.username))

\* a query of the request raised: the store could not be reached
StoreFailed ==
    \E i \in 1..Len(loginOut.resp.queried) : loginOut.resp.queried[i].outcome = "error"

QueriedCustomerOnly == loginOut.resp.queried = <<[table |-> "customer", outcome |-> "ok"]>>

QueriedCustomerThenStaff ==
    loginOut.resp.queried = <<[table |-> "customer", outcome |-> "ok"],
                              [table |-> "staff", outcome |-> "ok"]>>

----------------------------------------------------------------------------
(* Claims on login *)

\* C5: when a customer account matches the trimmed username, that account alone
\* decides the login: a correct password is answered with user_type customer, a
\* wrong one with 401, and the staff table is not queried in either case.
C5_CustomerDecides ==
    \A c \in Matching(customers) :
        (LoginAnswered /\ InputsGiven /\ ~StoreFailed)
        => /\ QueriedCustomerOnly
           /\ IF verify_password(loginOut.password, c.password)
              THEN /\ loginOut.resp.status = 200
                   /\ loginOut.resp.user_type = CUSTOMER
              ELSE /\ loginOut.resp.status = 401
                   /\ loginOut.resp.access_token = <<>>

\* C6: login issues no token for an inactive staff account: without a matching
\* customer, a matching inactive staff account is answered with 401 "Account is
\* disabled" whether or not the password is right.
C6_InactiveStaffDisabled ==
    /\ \A s \in Matching(staffs) :
          (/\ LoginAnswered /\ InputsGiven /\ ~StoreFailed
           /\ Matching(customers) = {}
           /\ ~s.is_active)
          => /\ loginOut.resp.status = 401
             /\ loginOut.resp.detail = "Account is disabled"
             /\ loginOut.resp.access_token = <<>>
    /\ (loginOut.resp.access_token # <<>> /\ loginOut.resp.user_type = STAFF)
       => \E s \in Matching(staffs) : s.is_active

\* C6 happens: an inactive staff account is refused although the password is right.
C6_Witness ==
    /\ LoginAnswered /\ InputsGiven
    /\ Matching(customers) = {}
    /\ \E s \in Matching(staffs) :
          ~s.is_active /\ verify_password(loginOut.password, s.password)
    /\ loginOut.resp.detail = "Account is disabled"

\* C7: when the trimmed username matches no customer and no staff account and
\* the store answers, a login with both fields given ends in 404 after the
\* customer query and then the staff query, without a token.
C7_UnknownUserNotFound ==
    (/\ LoginAnswered /\ InputsGiven /\ ~StoreFailed
     /\ Matching(customers) = {}
     /\ Matching(staffs) = {})
    => /\ loginOut.resp.status = 404
       /\ QueriedCustomerThenStaff
       /\ loginOut.resp.access_token = <<>>

\* C7 happens: both tables hold accounts, none under the trimmed username.
C7_Witness ==
    /\ loginOut.resp.status = 404
    /\ customers # {} /\ staffs # {}
    /\ strip(loginOut.username) # <<>>
    /\ strip(loginOut.username) # loginOut.username
    /\ QueriedCustomerThenStaff

\* C8: a login whose username is empty or only whitespace, or whose password is
\* empty, ends in 400 with no query run and no token.
C8_BlankInputRejected ==
    (LoginAnswered /\ (strip(loginOut.username) = <<>> \/ loginOut.password = <<>>))
    => /\ loginOut.resp.status = 400
       /\ loginOut.resp.queried = <<>>
       /\ loginOut.resp.access_token = <<>>

\* C9: when the customer query or the staff query cannot reach the store, login
\* ends in 503, a status no other login failure has, with no token and without
\* running the query again.
C9_StoreFailureUnavailable ==
    (LoginAnswered /\ StoreFailed)
    => /\ loginOut.resp.status = 503
       /\ loginOut.resp.access_token = <<>>
       /\ Len(loginOut.resp.queried) <= 2

----------------------------------------------------------------------------
(* Claims on identity resolution *)

TrackAnswered == trackOut.resp.status # 0

\* the name the query trace gives the table of an account kind
TableNameOf(kind) == IF kind = CUSTOMER THEN "customer" ELSE "staff"

\* the accounts the account query of the lookup matched when it ran, for a
\* validly signed token of that account kind
AccountsRead(kind) ==
    IF ReqSigned /\ token_claims(trackOut.token[1]).user_type = kind
    THEN trackOut.accounts_read
    ELSE {}

\* C10: every request with a validly signed customer or staff token reads the
\* account from the table of its kind; when that query matches no account of
\* the token's login name, the request ends in 401 "Could not validate
\* credentials" with no identity and no order data, and an identity, when there
\* is one, is backed by a row the query read from the store.
C10_ResolveReadsStore ==
    \A kind \in {CUSTOMER, STAFF} :
        (/\ TrackAnswered
         /\ ReqSigned
         /\ token_claims(trackOut.token[1]).user_name # None
         /\ token_claims(trackOut.token[1]).user_type = kind)
        => /\ Len(trackOut.resp.queried) >= 1
           /\ trackOut.resp.queried[1].table = TableNameOf(kind)
           /\ AccountsRead(kind) = {}
              => /\ trackOut.resp.user = <<>>
                 /\ trackOut.resp.body = <<>>
                 /\ trackOut.resp.queried[1].outcome = "ok"
                    => /\ trackOut.resp.status = 401
                       /\ trackOut.resp.detail = "Could not validate credentials"
           /\ trackOut.resp.user # <<>>
              => IF kind = CUSTOMER
                 THEN /\ trackOut.resp.user[1].customer # <<>>
                      /\ trackOut.resp.user[1].customer[1] \in AccountsRead(kind)
                 ELSE /\ trackOut.resp.user[1].staff # <<>>
                      /\ trackOut.resp.user[1].staff[1] \in AccountsRead(kind)

\* C10 happens: the token login returned is refused once its account is deleted.
C10_Witness ==
    /\ TrackAnswered
    /\ heldToken # <<>>
    /\ trackOut.token = heldToken
    /\ trackOut.resp.queried = <<[table |-> TableNameOf(token_claims(heldToken[1]).user_type),
                                  outcome |-> "ok"]>>
    /\ trackOut.accounts_read = {}
    /\ trackOut.resp.status = 401

----------------------------------------------------------------------------
(* Claims on the token *)

\* the request carries a token
TokenGiven == trackOut.token # <<>>

\* the token of the request is one get_current_user must refuse before any
\* query: it does not parse, its signature does not verify under SECRET_KEY, it
\* lacks user_name or user_type, or its user_type is no account kind
TokenRefusable ==
    /\ TokenGiven
    /\ \/ ~trackOut.token[1].wellformed
       \/ trackOut.token[1].sig # HMAC(SECRET_KEY, trackOut.token[1].payload)
       \/ token_claims(trackOut.token[1]).user_name = None
       \/ token_claims(trackOut.token[1]).user_type \notin {CUSTOMER, STAFF}

\* C11: a request whose token is malformed, is not signed with SECRET_KEY
\* (signed with another key, or changed after signing), lacks user_name or
\* user_type, or names an account kind that is neither customer nor staff, ends
\* in 401 with no identity and no body, and no query is run: neither the account
\* lookup nor the order lookup.
C11_BadTokenUnauthenticated ==
    (TrackAnswered /\ TokenRefusable)
    => /\ trackOut.resp.status = 401
       /\ trackOut.resp.detail = "Could not validate credentials"
       /\ trackOut.resp.user = <<>>
       /\ trackOut.resp.body = <<>>
       /\ trackOut.resp.queried = <<>>

\* C11 happens: a staff token signed with another key asks for a container an
\* order has, and is refused.
C11_Witness ==
    /\ TrackAnswered
    /\ TokenGiven
    /\ trackOut.token[1].wellformed
    /\ trackOut.token[1].sig = HMAC(OTHER_KEY, trackOut.token[1].payload)
    /\ token_claims(trackOut.token[1]).user_type = STAFF
    /\ OrdersOfContainer(strip(trackOut.container_number)) # {}
    /\ trackOut.resp.status = 401

\* the token of the login response
IssuedToken == loginOut.resp.access_token[1]

\* C12: the token login issues for a claim set (login name, display name, account
\* kind) verifies under SECRET_KEY and decodes to exactly those three claims, which
\* are also the three values get_current_user reads from it.
C12_DecodeOfIssueIsClaims ==
    loginOut.resp.status = 200
    => /\ jwt_valid(IssuedToken, SECRET_KEY)
       /\ token_claims(IssuedToken) = jwt_decode(IssuedToken)
       /\ \A c \in Matching(customers) :
             jwt_decode(IssuedToken) =
                 Claims(PyOr(c.username, c.zem_name), PyOr(c.full_name, c.zem_name),
                        CUSTOMER)
       /\ Matching(customers) = {}
          => \A st \in Matching(staffs) :
                jwt_decode(IssuedToken) =
                    Claims(st.username, staff_display_name(st), STAFF)
       /\ jwt_decode(IssuedToken).display_name = loginOut.resp.user
       /\ jwt_decode(IssuedToken).user_type = loginOut.resp.user_type

\* C12 happens: a token is issued for a display name that holds a backslash and a
\* double quote.
C12_Witness ==
    /\ loginOut.resp.status = 200
    /\ loginOut.resp.user = QuotedName
    /\ jwt_decode(IssuedToken).display_name = QuotedName

\* the accounts that decide the login of the request: the matching customers,
\* or the matching staff when no customer matches
Deciding == IF Matching(customers) # {} THEN Matching(customers) ELSE Matching(staffs)

\* C13: for every stored password that is NULL, empty or malformed, the verifier
\* answers FALSE for every plaintext password, and a login that such an account
\* decides ends in 401 without a token, not in a server error.
C13_UnusableHashNeverVerifies ==
    /\ \A acc \in customers \cup staffs : \A plain \in PasswordInputs :
          acc.password \in UnusableHashes => ~verify_password(plain, acc.password)
    /\ \A acc \in Deciding :
          (/\ LoginAnswered /\ InputsGiven /\ ~StoreFailed
           /\ acc.password \in UnusableHashes)
          => /\ ~verify_password(loginOut.password, acc.password)
             /\ loginOut.resp.status = 401
             /\ loginOut.resp.access_token = <<>>

\* C13 happens: an active staff account with a malformed stored password is
\* refused with 401.
C13_Witness ==
    /\ LoginAnswered /\ InputsGiven
    /\ Matching(customers) = {}
    /\ \E st \in Matching(staffs) : st.is_active /\ st.password = MalformedHash
    /\ loginOut.resp.status = 401
    /\ loginOut.resp.detail = "Invalid credentials"

----------------------------------------------------------------------------
(* Claims on the timeline *)

\* access to an order was granted: the response carries its preport data
Granted ==
    /\ trackOut.resp.status = 200
    /\ trackOut.resp.body # <<>>
    /\ trackOut.resp.body[1].has_permission
    /\ trackOut.resp.body[1].preport_timenode # <<>>

\* the timeline of the response
History == trackOut.resp.body[1].preport_timenode[1].history

\* the status codes of the timeline, in its order
Codes == [i \in 1..Len(History) |-> History[i].status]

\* the stages of an order in business order
StageOrder ==
    <<"ORDER_CREATED", "ARRIVED_AT_PORT", "PORT_UNLOADING", "PORT_PICKUP_SCHEDULED",
      "ARRIVE_AT_WAREHOUSE", "OFFLOAD", "EMPTY_RETURN">>

\* the position of a status code among the stages, 0 for a code that is no stage
StageOf(code) ==
    IF \E k \in 1..Len(StageOrder) : StageOrder[k] = code
    THEN CHOOSE k \in 1..Len(StageOrder) : StageOrder[k] = code
    ELSE 0

\* the events of the timeline with that status code
EventsOf(code) == {i \in 1..Len(History) : History[i].status = code}

\* every triggering field of the order is set
AllStagesRecorded(order) ==
    /\ order.add_to_t49
    /\ order.retrieval # <<>>
    /\ order.retrieval[1].temp_t49_pod_arrive_at # <<>>
    /\ order.retrieval[1].temp_t49_pod_discharge_at # <<>>
    /\ order.retrieval[1].scheduled_at # <<>>
    /\ order.retrieval[1].arrive_at_destination
    /\ order.offload # <<>>
    /\ order.offload[1].offload_at # <<>>
    /\ order.retrieval[1].empty_returned

\* C14: the status codes of every timeline that is returned are stages, strictly
\* increasing in business order (so each occurs at most once), with ORDER_CREATED
\* first, whatever the timestamps are; an order with every triggering field set
\* yields exactly the seven stages.
C14_TimelineInStageOrder ==
    Granted
    => /\ \A i \in 1..Len(Codes) : StageOf(Codes[i]) # 0
       /\ \A i, j \in 1..Len(Codes) : i < j => StageOf(Codes[i]) < StageOf(Codes[j])
       /\ Len(Codes) >= 1
       /\ Codes[1] = "ORDER_CREATED"
       /\ AllStagesRecorded(Found[1]) => Codes = StageOrder

\* C14 happens: all seven stages are returned although the port arrival carries
\* the latest timestamp and the empty return an early one.
C14_Witness ==
    /\ Granted
    /\ AllStagesRecorded(Found[1])
    /\ Len(History) = 7
    /\ History[2].timestamp[1] > History[6].timestamp[1]
    /\ History[7].timestamp[1] < History[3].timestamp[1]

\* the retrieval of the order marks the empty container as returned
EmptyReturned(order) == order.retrieval # <<>> /\ order.retrieval[1].empty_returned

\* C15: a returned timeline holds EMPTY_RETURN exactly when the order has a
\* retrieval that marks the empty return, whether or not it has an offload record.
C15_EmptyReturnIffReturned ==
    Granted => (EventsOf("EMPTY_RETURN") # {} <=> EmptyReturned(Found[1]))

\* the destination port of the order's vessel, None without a vessel
VesselPort(order) ==
    IF order.vessel # <<>> THEN order.vessel[1].destination_port ELSE None

\* C16: a returned timeline holds ARRIVED_AT_PORT exactly when add_to_t49 is set
\* and the retrieval has a port arrival time, and PORT_UNLOADING exactly when
\* add_to_t49 is set and the retrieval has a port discharge time; both carry the
\* destination port of the vessel as location, None without a vessel.  Without
\* add_to_t49 neither is there, whatever the retrieval records.
C16_PortEventsUnderT49 ==
    Granted
    => /\ EventsOf("ARRIVED_AT_PORT") # {}
          <=> /\ Found[1].add_to_t49
              /\ Found[1].retrieval # <<>>
              /\ Found[1].retrieval[1].temp_t49_pod_arrive_at # <<>>
       /\ EventsOf("PORT_UNLOADING") # {}
          <=> /\ Found[1].add_to_t49
              /\ Found[1].retrieval # <<>>
              /\ Found[1].retrieval[1].temp_t49_pod_discharge_at # <<>>
       /\ \A i \in EventsOf("ARRIVED_AT_PORT") \cup EventsOf("PORT_UNLOADING") :
             History[i].location = VesselPort(Found[1])
       /\ ~Found[1].add_to_t49
          => EventsOf("ARRIVED_AT_PORT") \cup EventsOf("PORT_UNLOADING") = {}

\* C16 happens: an order without add_to_t49, with a vessel and a retrieval that
\* records both port times, is returned without a port event.
C16_Witness ==
    /\ Granted
    /\ ~Found[1].add_to_t49
    /\ Found[1].vessel # <<>>
    /\ Found[1].retrieval # <<>>
    /\ Found[1].retrieval[1].temp_t49_pod_arrive_at # <<>>
    /\ Found[1].retrieval[1].temp_t49_pod_discharge_at # <<>>
    /\ EventsOf("ARRIVED_AT_PORT") \cup EventsOf("PORT_UNLOADING") = {}
    /\ Len(History) > 1

----------------------------------------------------------------------------
(* Claims on the shipment summary *)

\* the shipment summary query of the request raised
SummaryFailed ==
    \E i \in 1..Len(trackOut.resp.queried) :
        /\ trackOut.resp.queried[i].table = "pallet"
        /\ trackOut.resp.queried[i].outcome = "error"

\* the answer the same request gets when the shipment summary query succeeds
AnswerWithSummary ==
    build_order_full_history(trackOut.resp.user[1], strip(trackOut.container_number),
                             Found, FALSE, FALSE)

\* C17: when the shipment summary query raises, the lookup is still answered
\* with 200 and has_permission = TRUE, the summary is the empty list, and the
\* preport data with its timeline is what the request gets when the query succeeds.
C17_SummaryFailureSwallowed ==
    (TrackAnswered /\ SummaryFailed)
    => /\ Granted
       /\ trackOut.resp.body[1].postport_timenode = <<[shipment |-> {}]>>
       /\ trackOut.resp.body[1].preport_timenode
             = AnswerWithSummary.body[1].preport_timenode
       /\ History = preport_history(Found[1])
       /\ trackOut.resp.body[1].message = None

\* C17 happens: the summary query raises for a container that has pallets and an
\* order with every stage recorded.
C17_Witness ==
    /\ TrackAnswered
    /\ SummaryFailed
    /\ Granted
    /\ PalletsOfContainer(strip(trackOut.container_number)) # {}
    /\ AnswerWithSummary.body[1].postport_timenode[1].shipment # {}
    /\ Len(History) = 7

----------------------------------------------------------------------------
(* Claims on a session *)

\* the request carries the first token the session obtained
WithFirstToken == issued.token # <<>> /\ trackOut.token = issued.token

\* the zem_name of the owner of the order as the request loaded it from the
\* store: that of the account row itself when the account owns the order (the
\* row was loaded by the account query and the order query does not load it
\* again), else that of the owner row the order query read, None for an order
\* without an owner
OwnerKeyLoaded(c, order) ==
    IF order.customer_name_id = <<c.id>> THEN c.zem_name
    ELSE IF \E d \in trackOut.owners_read : order.customer_name_id = <<d.id>>
    THEN (CHOOSE d \in trackOut.owners_read : order.customer_name_id = <<d.id>>).zem_name
    ELSE None

\* C18: a lookup by a customer token for an order that exists is decided by the
\* customer row and the order owner as the queries of that request loaded them
\* from the store: the identity carries the row the account query read, the order
\* is one the order query read, and the answer is the denial exactly when the
\* zem_name of the owner as loaded differs from the zem_name of the account as
\* loaded, whatever they were when the token was issued.
C18_OwnershipFromStore ==
    \A c \in AccountsRead(CUSTOMER) :
        (TrackAnswered /\ trackOut.resp.user # <<>> /\ OrderQueryRan /\ Found # <<>>)
        => /\ Found[1] \in trackOut.orders_read
           /\ trackOut.resp.user[1].customer = <<c>>
           /\ IsDenied <=> OwnerKeyLoaded(c, Found[1]) # c.zem_name
           /\ ~IsDenied => Granted

\* C18 happens: the token was issued to the owner of the order under another
\* zem_name than the account has in the store, and the lookup is granted on the
\* one in the store; the token still carries the old name.
C18_Witness ==
    /\ TrackAnswered
    /\ WithFirstToken
    /\ Granted
    /\ \E c \in AccountsRead(CUSTOMER) :
          /\ c \in customers
          /\ issued.account = <<[c EXCEPT !.zem_name = <<"a">>]>>
          /\ c.zem_name = <<"a", "b">>
          /\ Found[1].customer_name_id = <<c.id>>
          /\ trackOut.resp.body[1].preport_timenode[1].user = <<c>>
          /\ token_claims(trackOut.token[1]).display_name = <<"a">>

\* C19: the token a login issued stays good: whatever logins and lookups were
\* answered since, a request that carries it passes decoding (its signature
\* verifies under SECRET_KEY and its claims are complete), and it is resolved to
\* an identity whenever the account query finds the account it names in the
\* store and does not fail.
C19_TokenNeverExpires ==
    (TrackAnswered /\ WithFirstToken)
    => /\ jwt_valid(issued.token[1], SECRET_KEY)
       /\ ~TokenRefusable
       /\ trackOut.resp.queried # <<>>
       /\ (trackOut.accounts_read # {} /\ trackOut.resp.queried[1].outcome = "ok")
          => /\ trackOut.resp.user # <<>>
             /\ trackOut.resp.status # 401

\* C19 happens: after as many later requests as are counted (the lookup being
\* answered is the last of them, a login that returned another token is one of
\* them), the first token is resolved.
C19_Witness ==
    /\ TrackAnswered
    /\ WithFirstToken
    /\ issued.later = MaxLater
    /\ heldToken # issued.token
    /\ trackOut.resp.user # <<>>
    /\ trackOut.resp.status = 200

----------------------------------------------------------------------------
(* Claims on what a rejected login reveals *)

\* what the caller sees of a login response: the status and the message
Seen(resp) == <<resp.status, resp.detail>>

\* the response the same request gets from an account that is active and has
\* another password: the rejection for a wrong password
WrongPasswordAnswer(st) ==
    login_staff([st EXCEPT !.is_active = TRUE, !.password = DjangoHash(<<"other">>)],
                loginOut.password, loginOut.resp.queried)

\* C20: a login rejected because the staff account is disabled is answered with
\* the same status and the same message as a login rejected for a wrong password.
C20_RejectionsIndistinguishable ==
    \A st \in Matching(staffs) :
        (/\ LoginAnswered /\ InputsGiven /\ ~StoreFailed
         /\ Matching(customers) = {}
         /\ ~st.is_active)
        => Seen(loginOut.resp) = Seen(WrongPasswordAnswer(st))

----------------------------------------------------------------------------
(* Claims on store failures *)

\* the statuses of the failure kinds: invalid input, unauthenticated, not found,
\* unavailable
FailureStatuses == {400, 401, 404, 503}

\* a query of the lookup request raised: the account lookup or the order query
LookupStoreFailed ==
    \E i \in 1..Len(trackOut.resp.queried) :
        /\ trackOut.resp.queried[i].table \in {"customer", "staff", "order"}
        /\ trackOut.resp.queried[i].outcome = "error"

\* C21: a store failure in the account queries of login, in the account lookup
\* of get_current_user or in the order query is answered with a status of one of
\* the failure kinds, and the answer carries nothing of the store's error text.
C21_StoreFailureTranslated ==
    /\ (LoginAnswered /\ StoreFailed)
       => /\ loginOut.resp.status \in FailureStatuses
          /\ \A i \in 1..Len(loginOut.resp.detail_args) :
                loginOut.resp.detail_args[i] # StoreErrorText
    /\ (TrackAnswered /\ LookupStoreFailed)
       => trackOut.resp.status \in FailureStatuses

----------------------------------------------------------------------------
(* Claims on the time zone *)

\* a stored UTC time moved by eight hours; NULL stays NULL
UtcPlus8(ts) == IF ts = <<>> THEN <<>> ELSE <<ts[1] + 8>>

\* the stored time an event of the timeline is keyed on
StoredTime(order, code) ==
    CASE code = "ORDER_CREATED" -> order.created_at
      [] code = "ARRIVED_AT_PORT" -> order.retrieval[1].temp_t49_pod_arrive_at
      [] code = "PORT_UNLOADING" -> order.retrieval[1].temp_t49_pod_discharge_at
      [] code = "PORT_PICKUP_SCHEDULED" -> order.retrieval[1].scheduled_at
      [] code = "ARRIVE_AT_WAREHOUSE" -> order.retrieval[1].arrive_at
      [] code = "OFFLOAD" -> order.offload[1].offload_at
      [] code = "EMPTY_RETURN" -> order.retrieval[1].empty_returned_at

\* the summary rows of the response
SummaryRows == trackOut.resp.body[1].postport_timenode[1].shipment

\* C22: every time in a returned timeline and in a returned shipment summary is
\* the stored UTC time plus eight hours, and a NULL time stays NULL.
C22_TimesShiftedByEight ==
    Granted
    => /\ \A i \in 1..Len(History) :
             History[i].timestamp = UtcPlus8(StoredTime(Found[1], History[i].status))
       /\ \A row \in SummaryRows :
             \E p \in PalletsOfContainer(strip(trackOut.container_number)) :
                 /\ GroupKey(p).shipment_batch_number = row.master_shipment_batch_number
                 /\ row.shipped_at = UtcPlus8(GroupKey(p).shipped_at_utc)

----------------------------------------------------------------------------
(* Claims on what the requests leave alone *)

\* a step of a request: it is received, runs a query or is answered
RequestStep == reqs' # reqs

\* C23: every step of a login or of a lookup (with its identity resolution and
\* its shipment summary), whether the request succeeds or fails, leaves the
\* account tables, the orders and the pallets with their shipments as they were.
C23_RequestsOnlyRead ==
    [][RequestStep
       => /\ customers' = customers
          /\ staffs' = staffs
          /\ orders' = orders
          /\ pallets' = pallets]_vars

\* C23 happens: after a staff login the token it returned has been used for a
\* lookup that returned an order with its shipment summary.
C23_Witness ==
    /\ TrackAnswered
    /\ heldToken # <<>>
    /\ trackOut.token = heldToken
    /\ token_claims(heldToken[1]).user_type = STAFF
    /\ Granted
    /\ SummaryRows # {}

----------------------------------------------------------------------------
(* Claims on requests served side by side *)

\* what the request of process p gets when it is the only request served
RunAlone(p) ==
    IF reqs[p].kind = "login"
    THEN login(reqs[p].username, reqs[p].password, FALSE, FALSE)
    ELSE get_order_full_history(reqs[p].token, reqs[p].container_number, reqs[p].found,
                                FALSE, FALSE, FALSE)

\* C24: whatever logins and lookups are served at the same time against an
\* unchanged store and however their steps interleave, every answered request
\* has exactly the response it gets when it runs alone (for a lookup: with the
\* same order row returned by the store), so no request has used the token, the
\* identity or the session state of another.
C24_ConcurrentAsAlone ==
    \A p \in Procs : reqs[p].pc = "done" => reqs[p].resp = <<RunAlone(p)>>

\* C24 happens: the lookup of customer b on container a has been refused while
\* the lookup of customer a on the same container, which resolved its identity
\* and passed its permission check, still waits for its summary query, or the
\* other way round.
C24_Witness ==
    \E p, q \in Procs :
        /\ p # q
        /\ reqs[p].pc = "pallet_query"
        /\ reqs[p].container_number = <<"a">>
        /\ current_user(p).username = <<"a">>
        /\ reqs[q].pc = "done"
        /\ reqs[q].kind = "track"
        /\ reqs[q].container_number = <<"a">>
        /\ reqs[q].resp[1].user # <<>>
        /\ reqs[q].resp[1].user[1].username = <<"b">>
        /\ reqs[q].resp[1].body = <<DeniedResponse(<<"a">>)>>

----------------------------------------------------------------------------
(* Claims on when the shipment summary is read *)

\* the shipment summary query was executed, whether it raised or not
SummaryQueried ==
    \E i \in 1..Len(trackOut.resp.queried) : trackOut.resp.queried[i].table = "pallet"

\* the response is the not-found response
IsNotFound ==
    /\ trackOut.resp.status = 200
    /\ trackOut.resp.body # <<>>
    /\ trackOut.resp.body[1].has_permission
    /\ trackOut.resp.body[1].preport_timenode = <<>>

\* C25: the shipment summary query is executed only in a lookup whose token
\* resolved to an account, whose order query found an order and whose permission
\* check on that order passed; in a lookup answered with the denied or the
\* not-found response the query was never executed and the response carries no
\* summary.
C25_SummaryOnlyAfterPermission ==
    TrackAnswered
    => /\ SummaryQueried
          => /\ trackOut.resp.user # <<>>
             /\ OrderQueryRan
             /\ Found # <<>>
             /\ permitted(trackOut.resp.user[1], Found[1])
       /\ (IsDenied \/ IsNotFound)
          => /\ ~SummaryQueried
             /\ trackOut.resp.body[1].postport_timenode = <<>>

\* C25 happens: a customer is refused an order of another owner, for a
\* container that has pallets, and the lookup has read the account and the order
\* only.
C25_Witness ==
    /\ TrackAnswered
    /\ IsDenied
    /\ Found # <<>>
    /\ PalletsOfContainer(Found[1].container_number) # {}
    /\ trackOut.resp.queried = <<[table |-> "customer", outcome |-> "ok"],
                                 [table |-> "order", outcome |-> "ok"]>>

----------------------------------------------------------------------------
(* Claims on whose pallets a summary counts *)

\* the pallets the summary of the response was aggregated from
AggregatedPallets ==
    IF SummaryQueried /\ ~SummaryFailed
    THEN PalletsOfContainer(strip(trackOut.container_number))
    ELSE {}

\* the pallet is of a container row that has an order of that customer
OfContainerOwnedBy(p, customer) ==
    \E o \in orders : /\ o.container_number_id = p.container_number_id
                      /\ o.customer_name_id = <<customer.id>>

\* C26: in a lookup answered to a customer with a shipment summary, every
\* pallet the summary was aggregated from is of a container row whose order is
\* owned by that customer, also when several container rows carry the requested
\* container number and their orders have different owners.
C26_SummaryOfOwnContainers ==
    (TrackAnswered /\ Granted /\ is_customer(trackOut.resp.user[1]))
    => \A p \in AggregatedPallets :
          /\ trackOut.resp.user[1].customer # <<>>
          /\ OfContainerOwnedBy(p, trackOut.resp.user[1].customer[1])

----------------------------------------------------------------------------
(* Claims on deactivated staff *)

\* C27: a lookup with a validly signed staff token is resolved to the staff
\* account of the token's login name whenever the account query finds such an
\* account in the store and does not fail, whether the account is active or not:
\* the identity carries the row as read, the request is not answered with 401,
\* and the lookup is answered as for any staff member.
C27_ResolveIgnoresActive ==
    \A st \in AccountsRead(STAFF) :
        (TrackAnswered /\ trackOut.resp.queried # <<>>
                       /\ trackOut.resp.queried[1].outcome = "ok")
        => /\ trackOut.resp.status # 401
           /\ trackOut.resp.user
                 = <<CurrentUser(st.username,
                                 token_claims(trackOut.token[1]).display_name,
                                 STAFF, <<>>, <<st>>)>>
           /\ Found # <<>> => Granted

\* C27 happens: the token was issued to an active staff account, the account
\* has been deactivated since, and a lookup with the token is granted.
C27_Witness ==
    /\ TrackAnswered
    /\ WithFirstToken
    /\ token_claims(issued.token[1]).user_type = STAFF
    /\ issued.account[1].is_active
    /\ \E st \in AccountsRead(STAFF) :
          /\ ~st.is_active
          /\ issued.account = <<[st EXCEPT !.is_active = TRUE]>>
          /\ trackOut.resp.user[1].staff = <<st>>
    /\ Granted

----------------------------------------------------------------------------
(* Claims on login followed by resolution *)

\* the account entity of the resolved identity, in the slot of its kind
BackingAccount ==
    IF trackOut.resp.user[1].user_type = CUSTOMER
    THEN trackOut.resp.user[1].customer
    ELSE trackOut.resp.user[1].staff

\* C28: with the credential store as it was when a login succeeded, a lookup
\* that carries the token of that login is resolved, and the identity has the
\* account kind and the display name the login returned, the trimmed username of
\* the login as its login name, and the account row whose password the login
\* verified as its account, also when a customer and a staff account have the
\* same login name.
C28_LoginThenResolve ==
    (TrackAnswered /\ WithFirstToken)
    => /\ trackOut.resp.user # <<>>
       /\ trackOut.resp.user[1].user_type = issued.resp[1].user_type
       /\ trackOut.resp.user[1].display_name = issued.resp[1].user
       /\ trackOut.resp.user[1].username = strip(issued.username)
       /\ BackingAccount = issued.account

====
